---- MODULE Spec2Model ----
(***************************************************************************)
(* Website cloner: the job lifecycle driven by process_website_cloning     *)
(* (backend/app/main.py), the generation cascade of LLMGenerator           *)
(* (backend/app/llm_generator.py) and the job model (backend/app/models.py)*)
(*                                                                         *)
(* Text (model output, HTML documents, exception messages) is a sequence   *)
(* of tokens.  A token is a string; the code-fence token, "html",         *)
(* "<!DOCTYPE", "<html", " " and "\n" are the ones the code searches for   *)
(* or strips, all other tokens are opaque text holding none of them.       *)
(***************************************************************************)
EXTENDS Integers, Sequences, FiniteSets, TLC

(***************************************************************************)
(* Bounds of the model.                                                    *)
(***************************************************************************)
MaxJobs == 2       \* clone requests accepted in one behaviour
MaxClock == 1      \* ticks of the wall clock in one behaviour
MaxShots == 2      \* screenshots one capture returns in the model
MaxText == 5       \* tokens of a text handed to _extract_html_code alone

JobIds == 1..MaxJobs
Direct == 0        \* a caller of generate_html_clone outside the pipeline
Callers == JobIds \cup {Direct}

(***************************************************************************)
(* Optional values: a dict key that is absent, a None, or a value.         *)
(***************************************************************************)
Absent == [tag |-> "absent"]
None == [tag |-> "none"]
Val(x) == [tag |-> "val", v |-> x]

\* dict.get(key): None for an absent key
Get(o) == IF o = Absent THEN None ELSE o
\* dict.get(key, default): the default only for an absent key
GetDefault(o, d) == IF o = Absent THEN Val(d) ELSE o

(***************************************************************************)
(* Images and documents.  A blob is its base64 text (data), and what       *)
(* decoding it yields: whether it decodes, and the decoded size.           *)
(***************************************************************************)
Image(d, ok, w, h) == [data |-> d, decodable |-> ok, w |-> w, h |-> h]
EmptyBlob == Image("", FALSE, 0, 0)
ImgA == Image("imgA", TRUE, 1920, 1080)
ImgB == Image("imgB", TRUE, 1920, 1080)
ImgMax == Image("imgMax", TRUE, 3000, 3000)
ImgWide == Image("imgWide", TRUE, 3001, 3000)
ImgTall == Image("imgTall", TRUE, 3000, 3001)
ImgCorrupt == Image("imgCorrupt", FALSE, 0, 0)
PdfDoc == Image("pdf", TRUE, 595, 842)
PdfLong == Image("pdfLong", TRUE, 595, 4000)

\* Python truthiness of a str / list held in an optional
TruthyBlob(o) == o.tag = "val" /\ o.v.data # ""
TruthyList(o) == o.tag = "val" /\ Len(o.v) > 0

MaxImageSide == 3000

\* (mutant) the limit is exclusive: a side of exactly 3000 fails
ValidateScreenshotSizeStrict(img) ==
    IF ~img.decodable THEN FALSE
    ELSE img.w < MaxImageSide /\ img.h < MaxImageSide

\* LLMGenerator._validate_screenshot_size: False on any decoding error
ValidateScreenshotSize(img) ==
    IF ~img.decodable THEN FALSE
    ELSE img.w <= MaxImageSide /\ img.h <= MaxImageSide

(***************************************************************************)
(* Text operations of Python's str, on token sequences.                    *)
(***************************************************************************)
IsSpace(t) == t \in {" ", "\n"}

RECURSIVE LStrip(_)
LStrip(s) == IF s # <<>> /\ IsSpace(Head(s)) THEN LStrip(Tail(s)) ELSE s

RECURSIVE RStrip(_)
RStrip(s) ==
    IF s # <<>> /\ IsSpace(s[Len(s)]) THEN RStrip(SubSeq(s, 1, Len(s) - 1)) ELSE s

\* str.strip()
Strip(s) == RStrip(LStrip(s))

\* pat occurs in s at position i (1-based)
MatchAt(s, pat, i) ==
    /\ i >= 1
    /\ i + Len(pat) - 1 <= Len(s)
    /\ \A k \in 1..Len(pat) : s[i + k - 1] = pat[k]

\* str.find(pat, from): the first position >= from where pat occurs, 0 for
\* Python's -1 (positions are 1-based here)
Find(s, pat, from) ==
    LET hits == {i \in from..Len(s) : MatchAt(s, pat, i)}
    IN  IF hits = {} THEN 0 ELSE CHOOSE i \in hits : \A k \in hits : i <= k

\* pat in s
Contains(s, pat) == Find(s, pat, 1) # 0

\* s[from:] in 1-based positions
From(s, from) == SubSeq(s, from, Len(s))

\* The token Ticks stands for the three backquote characters of a Markdown
\* code fence.
Ticks == "[fence]"
FenceHtml == <<Ticks, "html">>
Fence == <<Ticks>>
DoctypeLine == <<"<!DOCTYPE", " ", "html", ">", "\n">>

\* str.startswith of the doctype or the root tag
StartsWithDoctypeOrRoot(s) == s # <<>> /\ Head(s) \in {"<!DOCTYPE", "<html"}

\* (mutant) the first fence of any kind is taken, tagged or not
SelectHtmlFirstFence(response) ==
    IF Contains(response, Fence)
    THEN LET start == Find(response, Fence, 1) + Len(Fence)
             end == Find(response, Fence, start)
         IN  IF end # 0
             THEN Strip(SubSeq(response, start, end - 1))
             ELSE Strip(From(response, start))
    ELSE Strip(response)

\* LLMGenerator._extract_html_code, lines 348-364: the text inside the first
\* html fence, else inside the first fence, else the whole text, stripped
SelectHtml(response) ==
    IF Contains(response, FenceHtml)
    THEN LET start == Find(response, FenceHtml, 1) + Len(FenceHtml)
             end == Find(response, Fence, start)
         IN  IF end # 0
             THEN Strip(SubSeq(response, start, end - 1))
             ELSE Strip(From(response, start))
    ELSE IF Contains(response, Fence)
    THEN LET start == Find(response, Fence, 1) + Len(Fence)
             end == Find(response, Fence, start)
         IN  IF end # 0
             THEN Strip(SubSeq(response, start, end - 1))
             ELSE Strip(From(response, start))
    ELSE Strip(response)

\* (mutant) the doctype line is never prepended
EnsureDoctypeOmitted(html) == html

\* (mutant) the doctype line is prepended to every text
EnsureDoctypeAlways(html) == DoctypeLine \o html

\* (mutant) the doctype line is prepended only when the text holds no
\* doctype and no root tag anywhere
EnsureDoctypeContains(html) ==
    IF ~(Contains(html, <<"<!DOCTYPE">>) \/ Contains(html, <<"<html">>))
    THEN DoctypeLine \o html ELSE html

\* LLMGenerator._extract_html_code, lines 366-370
EnsureDoctype(html) ==
    IF ~StartsWithDoctypeOrRoot(Strip(html)) THEN DoctypeLine \o html ELSE html

\* LLMGenerator._extract_html_code
ExtractHtmlCode(response) == EnsureDoctype(SelectHtml(response))

(***************************************************************************)
(* The two model-free generators.  The literal parts of each template are  *)
(* opaque tokens; the title and the colours are the evidence's own text.   *)
(***************************************************************************)
DefaultTitle == <<"Cloned Website">>
DefaultColors == <<"#333333", "#ffffff", "#007bff">>

\* str(x) of an optional text inside an f-string
Str(o) == IF o.tag = "val" THEN o.v ELSE <<"None">>

\* list[:n]
Take(s, n) == SubSeq(s, 1, IF Len(s) < n THEN Len(s) ELSE n)

\* (mutant) the evidence's first font is written into the style, as
\* _create_enhanced_html does
CreateFallbackHtmlFonts(sd) ==
    LET title == Str(GetDefault(sd.title, DefaultTitle))
        palette == GetDefault(sd.color_palette, DefaultColors)
    IN  IF palette.tag # "val"
        THEN [raised |-> TRUE, text |-> <<"TypeError: 'NoneType' object is not subscriptable">>]
        ELSE LET colors == Take(palette.v, 3)
                 c0 == IF Len(colors) > 0 THEN colors[1] ELSE "#333333"
                 c1 == IF Len(colors) > 1 THEN colors[2] ELSE "#ffffff"
                 c2 == IF Len(colors) > 2 THEN colors[3] ELSE "#007bff"
             IN  [raised |-> FALSE,
                  text |-> <<"<!DOCTYPE", " ", "html", ">", "\n", "<html", " lang><head><title>">>
                           \o title
                           \o (IF TruthyList(Get(sd.fonts)) THEN <<"</title><style>body{font-family:", Get(sd.fonts).v[1], ";background:", c1>>
                              ELSE <<"</title><style>body{background:", c1>>)
                           \o << ";color:", c0,
                                ";}header{background:", c0, ";color:", c1,
                                ";}.notice{border-left:4px solid ", c2,
                                ";}</style></head><body><header><h1>">>
                           \o title
                           \o <<"</h1></header><main>Fallback mode</main></body></", "html", ">">>]

\* (mutant) palette slots 0 and 1 change places
CreateFallbackHtmlSwapped(sd) ==
    LET title == Str(GetDefault(sd.title, DefaultTitle))
        palette == GetDefault(sd.color_palette, DefaultColors)
    IN  IF palette.tag # "val"
        THEN [raised |-> TRUE, text |-> <<"TypeError: 'NoneType' object is not subscriptable">>]
        ELSE LET colors == Take(palette.v, 3)
                 c0 == IF Len(colors) > 1 THEN colors[2] ELSE "#ffffff"
                 c1 == IF Len(colors) > 0 THEN colors[1] ELSE "#333333"
                 c2 == IF Len(colors) > 2 THEN colors[3] ELSE "#007bff"
             IN  [raised |-> FALSE,
                  text |-> <<"<!DOCTYPE", " ", "html", ">", "\n", "<html", " lang><head><title>">>
                           \o title
                           \o <<"</title><style>body{background:", c1, ";color:", c0,
                                ";}header{background:", c0, ";color:", c1,
                                ";}.notice{border-left:4px solid ", c2,
                                ";}</style></head><body><header><h1>">>
                           \o title
                           \o <<"</h1></header><main>Fallback mode</main></body></", "html", ">">>]

\* LLMGenerator._create_fallback_html.  scraped_data.get('color_palette',
\* default)[:3] raises TypeError when the key holds None: the result is
\* [raised |-> TRUE] then, and the document otherwise.
CreateFallbackHtml(sd) ==
    LET title == Str(GetDefault(sd.title, DefaultTitle))
        palette == GetDefault(sd.color_palette, DefaultColors)
    IN  IF palette.tag # "val"
        THEN [raised |-> TRUE, text |-> <<"TypeError: 'NoneType' object is not subscriptable">>]
        ELSE LET colors == Take(palette.v, 3)
                 c0 == IF Len(colors) > 0 THEN colors[1] ELSE "#333333"
                 c1 == IF Len(colors) > 1 THEN colors[2] ELSE "#ffffff"
                 c2 == IF Len(colors) > 2 THEN colors[3] ELSE "#007bff"
             IN  [raised |-> FALSE,
                  text |-> <<"<!DOCTYPE", " ", "html", ">", "\n", "<html", " lang><head><title>">>
                           \o title
                           \o <<"</title><style>body{background:", c1, ";color:", c0,
                                ";}header{background:", c0, ";color:", c1,
                                ";}.notice{border-left:4px solid ", c2,
                                ";}</style></head><body><header><h1>">>
                           \o title
                           \o <<"</h1></header><main>Fallback mode</main></body></", "html", ">">>]

\* ScrapedData(**scraped_data_dict): the pydantic model keeps its declared
\* fields and drops the other keys of the dict
ScrapedData(sd) ==
    [title |-> Get(sd.title),
     screenshot_base64 |-> Get(sd.screenshot_base64),
     color_palette |-> Get(sd.color_palette),
     fonts |-> Get(sd.fonts)]

\* x or default, for an optional list or text
OrElse(o, d) == IF o.tag = "val" /\ o.v # <<>> THEN o.v ELSE d

\* main._create_enhanced_html, on the job's ScrapedData
CreateEnhancedHtml(data) ==
    LET title == OrElse(data.title, DefaultTitle)
        colors == IF TruthyList(data.color_palette)
                  THEN Take(data.color_palette.v, 5) ELSE DefaultColors
        fonts == IF TruthyList(data.fonts)
                 THEN Take(data.fonts.v, 3) ELSE <<"Arial", "sans-serif">>
        primary_color == IF Len(colors) > 0 THEN colors[1] ELSE "#333333"
        bg_color == IF Len(colors) > 1 THEN colors[2] ELSE "#ffffff"
        accent_color == IF Len(colors) > 2 THEN colors[3] ELSE "#007bff"
        primary_font == IF Len(fonts) > 0 THEN fonts[1] ELSE "Arial, sans-serif"
    IN  <<"<!DOCTYPE", " ", "html", ">", "\n", "<html", " lang><head><title>">>
        \o title
        \o <<"</title><style>body{font-family:", primary_font,
             ";background-color:", bg_color, ";color:", primary_color,
             ";}header{background-color:", primary_color, ";color:", bg_color,
             ";}.info-card{border-left:4px solid ", accent_color,
             ";}</style></head><body><header><h1>">>
        \o title
        \o <<"</h1><p>Enhanced clone with extracted design data</p></header>",
             "<main>Extracted Design Elements</main></body></", "html", ">">>

(***************************************************************************)
(* The Visual Input Selector.                                              *)
(***************************************************************************)
NoVisual == [type |-> "none", images |-> <<>>, pdf |-> EmptyBlob]

\* screenshot_candidates, in the order of the list literal
ScreenshotCandidates(sd) == <<Get(sd.screenshot_base64), Get(sd.screenshot_hero)>>

\* (mutant) the document is preferred to the screenshot sequence
GetBestVisualInputPdfFirst(sd) ==
    LET full_screenshots == Get(sd.full_page_screenshots)
        pdf_data == Get(sd.pdf_base64)
        cands == ScreenshotCandidates(sd)
        good == {i \in 1..Len(cands) :
                    TruthyBlob(cands[i]) /\ ValidateScreenshotSize(cands[i].v)}
    IN  IF TruthyBlob(pdf_data)
        THEN [type |-> "pdf", images |-> <<>>, pdf |-> pdf_data.v]
        ELSE IF TruthyList(full_screenshots)
        THEN [type |-> "screenshots", images |-> full_screenshots.v, pdf |-> EmptyBlob]
        ELSE IF good # {}
        THEN LET first == CHOOSE i \in good : \A k \in good : i <= k
             IN  [type |-> "screenshots", images |-> <<cands[first].v>>, pdf |-> EmptyBlob]
        ELSE NoVisual

\* (mutant) a valid single screenshot is preferred to the document
GetBestVisualInputSingleFirst(sd) ==
    LET full_screenshots == Get(sd.full_page_screenshots)
        pdf_data == Get(sd.pdf_base64)
        cands == ScreenshotCandidates(sd)
        good == {i \in 1..Len(cands) :
                    TruthyBlob(cands[i]) /\ ValidateScreenshotSize(cands[i].v)}
    IN  IF TruthyList(full_screenshots)
        THEN [type |-> "screenshots", images |-> full_screenshots.v, pdf |-> EmptyBlob]
        ELSE IF good # {}
        THEN LET first == CHOOSE i \in good : \A k \in good : i <= k
             IN  [type |-> "screenshots", images |-> <<cands[first].v>>, pdf |-> EmptyBlob]
        ELSE IF TruthyBlob(pdf_data)
        THEN [type |-> "pdf", images |-> <<>>, pdf |-> pdf_data.v]
        ELSE NoVisual

\* (mutant) the first non-empty single screenshot is taken without the size
\* validation
GetBestVisualInputUnvalidated(sd) ==
    LET full_screenshots == Get(sd.full_page_screenshots)
        pdf_data == Get(sd.pdf_base64)
        cands == ScreenshotCandidates(sd)
        good == {i \in 1..Len(cands) : TruthyBlob(cands[i])}
    IN  IF TruthyList(full_screenshots)
        THEN [type |-> "screenshots", images |-> full_screenshots.v, pdf |-> EmptyBlob]
        ELSE IF TruthyBlob(pdf_data)
        THEN [type |-> "pdf", images |-> <<>>, pdf |-> pdf_data.v]
        ELSE IF good # {}
        THEN LET first == CHOOSE i \in good : \A k \in good : i <= k
             IN  [type |-> "screenshots", images |-> <<cands[first].v>>, pdf |-> EmptyBlob]
        ELSE NoVisual

\* LLMGenerator._get_best_visual_input: (visual_data, input_type)
GetBestVisualInput(sd) ==
    LET full_screenshots == Get(sd.full_page_screenshots)
        pdf_data == Get(sd.pdf_base64)
        cands == ScreenshotCandidates(sd)
        good == {i \in 1..Len(cands) :
                    TruthyBlob(cands[i]) /\ ValidateScreenshotSize(cands[i].v)}
    IN  IF TruthyList(full_screenshots)
        THEN [type |-> "screenshots", images |-> full_screenshots.v, pdf |-> EmptyBlob]
        ELSE IF TruthyBlob(pdf_data)
        THEN [type |-> "pdf", images |-> <<>>, pdf |-> pdf_data.v]
        ELSE IF good # {}
        THEN LET first == CHOOSE i \in good : \A k \in good : i <= k
             IN  [type |-> "screenshots", images |-> <<cands[first].v>>, pdf |-> EmptyBlob]
        ELSE NoVisual

(***************************************************************************)
(* One call of generate_html_clone.  The call is suspended at each model   *)
(* request; pc names the request it waits for.  requests is the sequence   *)
(* of model requests the call has issued, replies the outcomes of those    *)
(* that have ended, converted what each call of _convert_pdf_to_image      *)
(* returned.                                                               *)
(***************************************************************************)
NoEvidence ==
    [title |-> Absent, full_page_screenshots |-> Absent, pdf_base64 |-> Absent,
     screenshot_base64 |-> Absent, screenshot_hero |-> Absent,
     color_palette |-> Absent, fonts |-> Absent]

IdleCall == [pc |-> "idle", sd |-> NoEvidence, visual |-> NoVisual,
             requests |-> <<>>, replies |-> <<>>, converted |-> <<>>, out |-> <<>>]

Request(kind, images, pdf) == [kind |-> kind, images |-> images, pdf |-> pdf]

\* return self._extract_html_code(html_code)
Return(g, html_code) == [g EXCEPT !.pc = "returned", !.out = ExtractHtmlCode(html_code)]

\* an exception leaves generate_html_clone
Raise(g, message) == [g EXCEPT !.pc = "raised", !.out = message]

\* html_code = self._create_fallback_html(scraped_data)
Fallback(g) ==
    LET f == CreateFallbackHtml(g.sd)
    IN  IF f.raised THEN Raise(g, f.text) ELSE Return(g, f.text)

\* _process_image_input up to its await
SendImage(g, image) ==
    [g EXCEPT !.pc = "image",
              !.requests = Append(@, Request("image", <<image>>, EmptyBlob))]

\* _process_multiple_screenshots up to its await
SendMulti(g, screenshots) ==
    [g EXCEPT !.pc = "multi",
              !.requests = Append(@, Request("multi", screenshots, EmptyBlob))]

\* _process_pdf_input up to its first await
SendPdfFull(g, pdf) ==
    [g EXCEPT !.pc = "pdf_full",
              !.requests = Append(@, Request("pdf_full", <<>>, pdf))]

\* _process_pdf_input, the simple prompt, up to its await
SendPdfTerse(g, pdf) ==
    [g EXCEPT !.pc = "pdf_terse",
              !.requests = Append(@, Request("pdf_terse", <<>>, pdf))]

\* _direct_visual_clone up to its first await
DirectVisualClone(g) ==
    IF g.visual.type = "screenshots"
    THEN IF Len(g.visual.images) > 1
         THEN SendMulti(g, g.visual.images)
         ELSE SendImage(g, g.visual.images[1])
    ELSE SendPdfFull(g, g.visual.pdf)

\* generate_html_clone up to its first await, or to its end
GenerateHtmlClone(sd) ==
    LET g == [IdleCall EXCEPT !.sd = sd, !.visual = GetBestVisualInput(sd)]
    IN  IF g.visual.type = "none" THEN Fallback(g) ELSE DirectVisualClone(g)

MaxDimension == 2048
PdfScale == 2

Max(a, b) == IF a >= b THEN a ELSE b

\* LLMGenerator._convert_pdf_to_image: None when PyMuPDF is missing or the
\* conversion fails (env), else the first page at 2x, shrunk to fit
\* max_dimension
ConvertPdfToImage(pdf, env) ==
    IF env # "ok" \/ ~pdf.decodable
    THEN None
    ELSE LET w == PdfScale * pdf.w
             h == PdfScale * pdf.h
             big == w > MaxDimension \/ h > MaxDimension
             nw == IF big THEN (w * MaxDimension) \div Max(w, h) ELSE w
             nh == IF big THEN (h * MaxDimension) \div Max(w, h) ELSE h
         IN  IF nw = 0 \/ nh = 0 THEN None
             ELSE Val(Image("pngOfPdf", TRUE, nw, nh))

ConversionEnv == {"ok", "import_error", "error"}

\* a model request's outcome: an exception (ok = FALSE), or the text of the
\* first content block
Failure == [ok |-> FALSE, text |-> <<>>]
Success(text) == [ok |-> TRUE, text |-> text]

\* await self.client.messages.create(...) ends with outcome o
Heard(g, o) == [g EXCEPT !.replies = Append(@, o)]

\* (mutant) after a failed multi-image request the last screenshot is sent
AfterMultiLast(g, o) ==
    IF o.ok THEN Return(g, o.text)
    ELSE SendImage(g, g.visual.images[Len(g.visual.images)])

\* (mutant) a failed multi-image request is sent once more before the
\* single image is tried
AfterMultiRetry(g, o) ==
    IF o.ok THEN Return(g, o.text)
    ELSE IF Len(g.requests) = 1 THEN SendMulti(g, g.visual.images)
    ELSE SendImage(g, g.visual.images[1])

\* (mutant) after a failed multi-image request the first screenshot is
\* taken out of the evidence's sequence and sent
AfterMultiPops(g, o) ==
    IF o.ok THEN Return(g, o.text)
    ELSE [SendImage(g, g.visual.images[1]) EXCEPT
              !.sd.full_page_screenshots = Val(Tail(g.visual.images))]

\* _process_multiple_screenshots after its await
AfterMulti(g, o) ==
    IF o.ok THEN Return(g, o.text) ELSE SendImage(g, g.visual.images[1])

\* _process_image_input after its await
AfterImage(g, o) ==
    IF o.ok THEN Return(g, o.text) ELSE Fallback(g)

\* _direct_visual_clone, the pdf branch after _process_pdf_input returned
\* pdf_result (None, or the response text)
AfterPdfInput(g, pdf_result, env) ==
    IF pdf_result.tag = "val" /\ pdf_result.v # <<>>
    THEN Return(g, pdf_result.v)
    ELSE LET image_data == ConvertPdfToImage(g.visual.pdf, env)
             screenshot == Get(g.sd.screenshot_base64)
             h == [g EXCEPT !.converted = Append(@, image_data)]
         IN  IF TruthyBlob(image_data)
             THEN SendImage(h, image_data.v)
             ELSE IF TruthyBlob(screenshot) /\ ValidateScreenshotSize(screenshot.v)
             THEN SendImage(h, screenshot.v)
             ELSE Fallback(h)

\* _process_pdf_input after its first await
AfterPdfFull(g, o, env) ==
    IF o.ok THEN AfterPdfInput(g, Val(o.text), env) ELSE SendPdfTerse(g, g.visual.pdf)

\* _process_pdf_input after its second await
AfterPdfTerse(g, o, env) ==
    IF o.ok THEN AfterPdfInput(g, Val(o.text), env) ELSE AfterPdfInput(g, None, env)

(***************************************************************************)
(* Inputs of the model.                                                    *)
(***************************************************************************)
\* texts a model request returns; the empty text is a response whose first
\* content block holds no text
ResponseTexts ==
    {<<>>,
     <<"Here", " ", Ticks, "html", "\n", "<html", ">page</", "html", ">", "\n", Ticks>>,
     <<"<div>page</div>">>}

Outcomes == {Failure} \cup {Success(t) : t \in ResponseTexts}

\* messages of the exceptions the browser layer raises; str(e) of an
\* exception built without arguments is the empty text
Messages == {<<>>, <<"Timeout 30000ms exceeded.">>}

\* the screenshot sequence of a capture of n scroll positions
ShotSeq(n) == [i \in 1..n |-> IF i % 2 = 1 THEN ImgA ELSE ImgB]

AcmePalette == <<"#111111", "#eeeeee", "#ff0000">>
Palettes ==
    {<<>>, <<"#111111">>, <<"#111111", "#eeeeee">>, AcmePalette, AcmePalette \o <<"#00ff00">>}

\* what scrape_website returns: at least one screenshot (it raises at its
\* summary print otherwise), screenshot_base64 the first of them, the pdf
\* text empty when the pdf failed, title, palette and fonts always present
ScraperEvidence ==
    {[title |-> Val(<<"Acme">>),
      full_page_screenshots |-> Val(ShotSeq(n)),
      pdf_base64 |-> Val(pdf),
      screenshot_base64 |-> Val(ShotSeq(n)[1]),
      screenshot_hero |-> Absent,
      color_palette |-> Val(AcmePalette),
      fonts |-> Val(<<"Inter">>)] :
        n \in 1..MaxShots, pdf \in {EmptyBlob, PdfDoc}}

(***************************************************************************)
(* The capture of a page (backend/app/scraper.py).                         *)
(***************************************************************************)
Overlap == 100
MaxScreenshots == 10
ViewportWidth == 1920
OptimizeMaxDimension == 2048

\* page.screenshot(full_page=False): the viewport as it is
ViewportShot(viewport_height) == Image("shot", TRUE, ViewportWidth, viewport_height)

\* WebsiteScraper._optimize_screenshot_for_llm: a side over max_dimension
\* shrinks the image to fit; any error gives the image back as it was
OptimizeScreenshotForLlm(img, env) ==
    IF env # "ok" \/ ~img.decodable
    THEN img
    ELSE IF img.w > OptimizeMaxDimension \/ img.h > OptimizeMaxDimension
    THEN LET nw == (img.w * OptimizeMaxDimension) \div Max(img.w, img.h)
             nh == (img.h * OptimizeMaxDimension) \div Max(img.w, img.h)
         IN  IF nw = 0 \/ nh = 0 THEN img
             ELSE Image("shotResized", TRUE, nw, nh)
    ELSE img

OptimizeEnv == {"ok", "error"}

\* document.body.scrollHeight and window.innerHeight of the pages captured
PageHeights == {0, 1, 900, 2000, 12000}
ViewportHeights == {50, 100, 1080, 2500}

\* the capture before scrape_website is called
IdleScraper ==
    [pc |-> "idle", page_height |-> 0, viewport_height |-> 0, current_position |-> 0,
     screenshot_count |-> 0, screenshots |-> <<>>, positions |-> <<>>]

(***************************************************************************)
(* Answers of the query handlers (backend/app/main.py).                    *)
(***************************************************************************)
\* no query has been answered yet
NoResponse ==
    [op |-> "none", id |-> 0, code |-> 0, status |-> "", html |-> None, ids |-> <<>>]

\* raise HTTPException(status_code=code, ...)
HttpError(op, id, code) == [NoResponse EXCEPT !.op = op, !.id = id, !.code = code]

\* Python truthiness of an Optional[str] holding a text
TruthyText(o) == o # None /\ o.v # <<>>

\* the body of the page preview_result answers while there is no document
PreviewNotReady == <<"<!DOCTYPE", " ", "html", ">", "Preview Not Ready">>

(***************************************************************************)
(* State.                                                                  *)
(***************************************************************************)
VARIABLES
    jobs_db,        \* main.jobs_db: the ids in the registry
    jobs,           \* the GenerationJob objects, by id
    task,           \* where each job's background task stands
    scraped_data_dict, \* the task's local scraped_data_dict
    gen,            \* the generate_html_clone call of each caller
    llm_generator,  \* whether main.llm_generator is set (a credential exists)
    clock,          \* the UTC wall clock
    tz,             \* the host's offset of local time from UTC
    status_log,     \* the values assigned to each job's status, in order
    capture_calls,  \* how often each task entered the capture
    generate_calls, \* how often each task called generate_html_clone
    exc,            \* the exception each task's except clause caught
    scraper,        \* the capture of one page: scrape_website and its screenshot loop
    response        \* what the last query of a client was answered

vars == <<jobs_db, jobs, task, scraped_data_dict, gen, llm_generator, clock, tz,
          status_log, capture_calls, generate_calls, exc, scraper, response>>

\* datetime.utcnow() and datetime.now(): both naive, the second local
UtcNow == clock
Now == clock + tz

NoJob ==
    [status |-> "nojob", scraped_data |-> None, generated_html |-> None,
     error_message |-> None, created_at |-> 0, updated_at |-> 0]

\* GenerationJob(url=...): models.GenerationJob.__init__ and the defaults
NewJob ==
    [status |-> "pending", scraped_data |-> None, generated_html |-> None,
     error_message |-> None, created_at |-> UtcNow, updated_at |-> UtcNow]

TzOffsets == {-1, 0, 1}

\* the state after start-up, on a host whose offset from UTC is one of
\* offsets
Boot(offsets) ==
    /\ jobs_db = {}
    /\ jobs = [j \in JobIds |-> NoJob]
    /\ task = [j \in JobIds |-> "none"]
    /\ scraped_data_dict = [j \in JobIds |-> NoEvidence]
    /\ gen = [c \in Callers |-> IdleCall]
    /\ llm_generator \in BOOLEAN
    /\ scraper = IdleScraper
    /\ response = NoResponse
    /\ clock = 0
    /\ tz \in offsets
    /\ status_log = [j \in JobIds |-> <<>>]
    /\ capture_calls = [j \in JobIds |-> 0]
    /\ generate_calls = [j \in JobIds |-> 0]
    /\ exc = [j \in JobIds |-> None]

Init == Boot({0})

InitClock == Boot(TzOffsets)

\* time passes
Tick ==
    /\ clock < MaxClock
    /\ clock' = clock + 1
    /\ UNCHANGED <<jobs_db, jobs, task, scraped_data_dict, gen, llm_generator, response, scraper, tz,
                   status_log, capture_calls, generate_calls, exc>>

\* (mutant) the id of a finished job is handed out again
StartWebsiteCloningReuse ==
    /\ \E j \in JobIds :
        /\ task[j] \in {"none", "done"}
        /\ \A k \in JobIds : k < j => task[k] \notin {"none", "done"}
        /\ jobs' = [jobs EXCEPT ![j] = NewJob]
        /\ jobs_db' = jobs_db \cup {j}
        /\ task' = [task EXCEPT ![j] = "queued"]
        /\ status_log' = [status_log EXCEPT ![j] = <<"pending">>]
    /\ UNCHANGED <<scraped_data_dict, gen, llm_generator, response, scraper, clock, tz, capture_calls, generate_calls, exc>>

\* POST /clone: start_website_cloning.  The uuid4 id is fresh; ids are
\* handed out in order here.
StartWebsiteCloning ==
    /\ \E j \in JobIds :
        /\ task[j] = "none"
        /\ \A k \in JobIds : k < j => task[k] # "none"
        /\ jobs' = [jobs EXCEPT ![j] = NewJob]
        /\ jobs_db' = jobs_db \cup {j}
        /\ task' = [task EXCEPT ![j] = "queued"]
        /\ status_log' = [status_log EXCEPT ![j] = <<"pending">>]
    /\ UNCHANGED <<scraped_data_dict, gen, llm_generator, response, scraper, clock, tz, capture_calls, generate_calls, exc>>

\* DELETE /jobs/{job_id}: delete_job (an unknown id answers 404)
DeleteJob(j) ==
    /\ j \in jobs_db
    /\ jobs_db' = jobs_db \ {j}
    /\ UNCHANGED <<jobs, task, scraped_data_dict, gen, llm_generator, response, scraper, clock, tz,
                   status_log, capture_calls, generate_calls, exc>>

\* job.status = s; job.updated_at = datetime.now()
SetStatus(job, s) == [job EXCEPT !.status = s, !.updated_at = Now]

\* lines 322-331: the html generate returned, or the enhanced html when it
\* raised
GeneratedHtml(job, g) ==
    IF g.pc = "returned" THEN g.out ELSE CreateEnhancedHtml(job.scraped_data.v)

\* job.generated_html = html, then lines 333-335
Complete(job, html) ==
    SetStatus([job EXCEPT !.generated_html = Val(html)], "completed")

\* (mutant) the background task is run again for a job whose task ended
ProcessStartTwice(j) ==
    /\ task[j] \in {"queued", "done"}
    /\ IF j \notin jobs_db
       THEN /\ task' = [task EXCEPT ![j] = "crashed"]
            /\ UNCHANGED <<jobs, status_log, capture_calls>>
       ELSE /\ jobs' = [jobs EXCEPT ![j] = SetStatus(@, "scraping")]
            /\ status_log' = [status_log EXCEPT ![j] = Append(@, "scraping")]
            /\ capture_calls' = [capture_calls EXCEPT ![j] = @ + 1]
            /\ task' = [task EXCEPT ![j] = "capture"]
    /\ UNCHANGED <<jobs_db, scraped_data_dict, gen, llm_generator, response, scraper, clock, tz,
                   generate_calls, exc>>

\* process_website_cloning from its start to the await of the capture.
\* jobs_db[job_id] raises KeyError outside the try when the job was deleted.
ProcessStart(j) ==
    /\ task[j] = "queued"
    /\ IF j \notin jobs_db
       THEN /\ task' = [task EXCEPT ![j] = "crashed"]
            /\ UNCHANGED <<jobs, status_log, capture_calls>>
       ELSE /\ jobs' = [jobs EXCEPT ![j] = SetStatus(@, "scraping")]
            /\ status_log' = [status_log EXCEPT ![j] = Append(@, "scraping")]
            /\ capture_calls' = [capture_calls EXCEPT ![j] = @ + 1]
            /\ task' = [task EXCEPT ![j] = "capture"]
    /\ UNCHANGED <<jobs_db, scraped_data_dict, gen, llm_generator, response, scraper, clock, tz,
                   generate_calls, exc>>

\* WebsiteScraper.scrape_website wraps what its try block raises
WrapScrapeError(m) == <<"Failed to scrape website: ">> \o m

\* where the capture can raise: launching the browser (__aenter__), opening
\* the page (before scrape_website's try), or inside the try
CaptureOrigins == {"launch", "new_page", "scrape"}

\* (mutant) the except clause records a fixed text, not str(e)
FailedGeneric(job, message) ==
    [SetStatus(job, "failed") EXCEPT !.error_message = Val(<<"Scraping failed">>)]

\* (mutant) the except clause sets the status and leaves the message unset
FailedNoMessage(job, message) == SetStatus(job, "failed")

\* the except clause of process_website_cloning
Failed(job, message) ==
    [SetStatus(job, "failed") EXCEPT !.error_message = Val(message)]

\* (mutant) a failed capture is retried: the task is queued again
CaptureRaisesRetry(j) ==
    /\ task[j] = "capture"
    /\ \E origin \in CaptureOrigins, m \in Messages :
        LET e == IF origin = "scrape" THEN WrapScrapeError(m) ELSE m
        IN  /\ exc' = [exc EXCEPT ![j] = Val(e)]
            /\ jobs' = [jobs EXCEPT ![j] = Failed(@, e)]
    /\ status_log' = [status_log EXCEPT ![j] = Append(@, "failed")]
    /\ task' = [task EXCEPT ![j] = "queued"]
    /\ UNCHANGED <<jobs_db, scraped_data_dict, gen, llm_generator, response, scraper, clock, tz,
                   capture_calls, generate_calls>>

\* (mutant) the except clause marks every job whose capture is pending
CaptureRaisesShared(j) ==
    /\ task[j] = "capture"
    /\ \E origin \in CaptureOrigins, m \in Messages :
        LET e == IF origin = "scrape" THEN WrapScrapeError(m) ELSE m
        IN  /\ exc' = [exc EXCEPT ![j] = Val(e)]
            /\ jobs' = [k \in JobIds |-> IF task[k] = "capture" THEN Failed(jobs[k], e)
                                         ELSE jobs[k]]
    /\ status_log' = [status_log EXCEPT ![j] = Append(@, "failed")]
    /\ task' = [task EXCEPT ![j] = "done"]
    /\ UNCHANGED <<jobs_db, scraped_data_dict, gen, llm_generator, response, scraper, clock, tz,
                   capture_calls, generate_calls>>

\* the capture raises: the except clause of process_website_cloning runs
CaptureRaises(j) ==
    /\ task[j] = "capture"
    /\ \E origin \in CaptureOrigins, m \in Messages :
        LET e == IF origin = "scrape" THEN WrapScrapeError(m) ELSE m
        IN  /\ exc' = [exc EXCEPT ![j] = Val(e)]
            /\ jobs' = [jobs EXCEPT ![j] = Failed(@, e)]
    /\ status_log' = [status_log EXCEPT ![j] = Append(@, "failed")]
    /\ task' = [task EXCEPT ![j] = "done"]
    /\ UNCHANGED <<jobs_db, scraped_data_dict, gen, llm_generator, response, scraper, clock, tz,
                   capture_calls, generate_calls>>

\* (mutant) the status is set to processing before the evidence is stored
\* on the job
CaptureReturnsLate(j) ==
    /\ task[j] = "capture"
    /\ \E sd \in ScraperEvidence :
        /\ scraped_data_dict' = [scraped_data_dict EXCEPT ![j] = sd]
        /\ jobs' = [jobs EXCEPT ![j] = SetStatus(@, "processing")]
    /\ status_log' = [status_log EXCEPT ![j] = Append(@, "processing")]
    /\ task' = [task EXCEPT ![j] = "sleep"]
    /\ UNCHANGED <<jobs_db, gen, llm_generator, response, scraper, clock, tz, capture_calls, generate_calls, exc>>

\* the capture returns: lines 308-314, to the await of asyncio.sleep
CaptureReturns(j) ==
    /\ task[j] = "capture"
    /\ \E sd \in ScraperEvidence :
        /\ scraped_data_dict' = [scraped_data_dict EXCEPT ![j] = sd]
        /\ jobs' = [jobs EXCEPT ![j] =
                      SetStatus([@ EXCEPT !.scraped_data = Val(ScrapedData(sd))],
                                "processing")]
    /\ status_log' = [status_log EXCEPT ![j] = Append(@, "processing")]
    /\ task' = [task EXCEPT ![j] = "sleep"]
    /\ UNCHANGED <<jobs_db, gen, llm_generator, response, scraper, clock, tz, capture_calls, generate_calls, exc>>

\* (mutant) a generate call that ended in the local fallback after failed
\* model requests fails the job
ResumeFailsOnFallback(c, g) ==
    IF c \in JobIds /\ g.pc \in {"returned", "raised"}
    THEN /\ IF g.requests # <<>> /\ g.out = ExtractHtmlCode(CreateFallbackHtml(g.sd).text)
            THEN /\ jobs' = [jobs EXCEPT ![c] = Failed(@, <<"generation failed">>)]
                 /\ status_log' = [status_log EXCEPT ![c] = Append(@, "failed")]
            ELSE /\ jobs' = [jobs EXCEPT ![c] = Complete(@, GeneratedHtml(@, g))]
                 /\ status_log' = [status_log EXCEPT ![c] = Append(@, "completed")]
         /\ task' = [task EXCEPT ![c] = "done"]
         /\ gen' = [gen EXCEPT ![c] = IdleCall]
         /\ scraped_data_dict' = [scraped_data_dict EXCEPT ![c] = NoEvidence]
    ELSE /\ gen' = [gen EXCEPT ![c] = g]
         /\ UNCHANGED <<jobs, status_log, task, scraped_data_dict>>

\* Caller c's generate call has become g.  When g has returned or raised
\* and c is a job's task, the rest of process_website_cloning runs and the
\* task ends, its locals (scraped_data_dict, the call) with it; else the
\* call stays suspended, or stays with the caller outside the pipeline.
Resume(c, g) ==
    IF c \in JobIds /\ g.pc \in {"returned", "raised"}
    THEN /\ jobs' = [jobs EXCEPT ![c] = Complete(@, GeneratedHtml(@, g))]
         /\ status_log' = [status_log EXCEPT ![c] = Append(@, "completed")]
         /\ task' = [task EXCEPT ![c] = "done"]
         /\ gen' = [gen EXCEPT ![c] = IdleCall]
         /\ scraped_data_dict' = [scraped_data_dict EXCEPT ![c] = NoEvidence]
    ELSE /\ gen' = [gen EXCEPT ![c] = g]
         /\ UNCHANGED <<jobs, status_log, task, scraped_data_dict>>

\* asyncio.sleep(1) returns: lines 316-335, to the first model request or,
\* with no request to wait for, to the end of the task
SleepReturns(j) ==
    /\ task[j] = "sleep"
    /\ IF llm_generator
       THEN LET g == GenerateHtmlClone(scraped_data_dict[j])
                generating == SetStatus(jobs[j], "generating")
            IN  /\ generate_calls' = [generate_calls EXCEPT ![j] = @ + 1]
                /\ IF g.pc \in {"returned", "raised"}
                   THEN /\ jobs' = [jobs EXCEPT ![j] =
                                      Complete(generating, GeneratedHtml(generating, g))]
                        /\ status_log' = [status_log EXCEPT ![j] =
                                            @ \o <<"generating", "completed">>]
                        /\ task' = [task EXCEPT ![j] = "done"]
                        /\ scraped_data_dict' = [scraped_data_dict EXCEPT ![j] = NoEvidence]
                        /\ UNCHANGED gen
                   ELSE /\ jobs' = [jobs EXCEPT ![j] = generating]
                        /\ status_log' = [status_log EXCEPT ![j] = Append(@, "generating")]
                        /\ task' = [task EXCEPT ![j] = "generate"]
                        /\ gen' = [gen EXCEPT ![j] = g]
                        /\ UNCHANGED scraped_data_dict
       ELSE /\ jobs' = [jobs EXCEPT ![j] =
                          Complete(SetStatus(@, "generating"),
                                   CreateEnhancedHtml(@.scraped_data.v))]
            /\ status_log' = [status_log EXCEPT ![j] = @ \o <<"generating", "completed">>]
            /\ task' = [task EXCEPT ![j] = "done"]
            /\ scraped_data_dict' = [scraped_data_dict EXCEPT ![j] = NoEvidence]
            /\ UNCHANGED <<gen, generate_calls>>
    /\ UNCHANGED <<jobs_db, llm_generator, response, scraper, clock, tz, capture_calls, exc>>

\* the multi-image request of caller c ends
MultiResponse(c) ==
    /\ gen[c].pc = "multi"
    /\ \E o \in Outcomes :
        Resume(c, AfterMulti(Heard(gen[c], o), o))
    /\ UNCHANGED <<jobs_db, llm_generator, response, scraper, clock, tz, capture_calls, generate_calls, exc>>

\* the single-image request of caller c ends
ImageResponse(c) ==
    /\ gen[c].pc = "image"
    /\ \E o \in Outcomes :
        Resume(c, AfterImage(Heard(gen[c], o), o))
    /\ UNCHANGED <<jobs_db, llm_generator, response, scraper, clock, tz, capture_calls, generate_calls, exc>>

\* the document request with the full instruction ends
PdfFullResponse(c) ==
    /\ gen[c].pc = "pdf_full"
    /\ \E o \in Outcomes, env \in ConversionEnv :
        Resume(c, AfterPdfFull(Heard(gen[c], o), o, env))
    /\ UNCHANGED <<jobs_db, llm_generator, response, scraper, clock, tz, capture_calls, generate_calls, exc>>

\* the document request with the simple instruction ends
PdfTerseResponse(c) ==
    /\ gen[c].pc = "pdf_terse"
    /\ \E o \in Outcomes, env \in ConversionEnv :
        Resume(c, AfterPdfTerse(Heard(gen[c], o), o, env))
    /\ UNCHANGED <<jobs_db, llm_generator, response, scraper, clock, tz, capture_calls, generate_calls, exc>>

\* The pipeline.  A capture that returns holds a screenshot sequence, so a
\* job's generate call issues no document request.  No step reads the
\* clock but to stamp a job, so the steps are the same whether time passes
\* or not: Spec lets the clock stand on a host in UTC, SpecClock lets it run
\* on a host of any offset.
Next ==
    \/ StartWebsiteCloning
    \/ \E j \in JobIds :
        \/ DeleteJob(j)
        \/ ProcessStart(j)
        \/ CaptureRaises(j)
        \/ CaptureReturns(j)
        \/ SleepReturns(j)
        \/ MultiResponse(j)
        \/ ImageResponse(j)

Spec == Init /\ [][Next]_vars

\* The event loop runs every task that is ready, every capture call returns
\* or raises, the sleep returns, and every model request returns or raises.
\* Requests of clients (start_website_cloning, delete_job) come when they
\* come.
Fairness ==
    \A j \in JobIds :
        /\ WF_vars(ProcessStart(j))
        /\ WF_vars(CaptureRaises(j) \/ CaptureReturns(j))
        /\ WF_vars(SleepReturns(j))
        /\ WF_vars(MultiResponse(j) \/ ImageResponse(j))

SpecFair == Init /\ [][Next]_vars /\ Fairness

NextClock == Next \/ Tick

SpecClock == InitClock /\ [][NextClock]_vars

(***************************************************************************)
(* generate_html_clone called on any evidence record, outside the          *)
(* pipeline.                                                               *)
(***************************************************************************)
Titles == {Absent, None, Val(<<"Acme">>)}

FullPageScreenshots ==
    {Absent, None, Val(<<>>), Val(<<ImgWide>>)} \cup {Val(ShotSeq(n)) : n \in 1..MaxShots}

Pdfs == {Absent, Val(EmptyBlob), Val(PdfDoc), Val(PdfLong)}

Screenshots == {Absent, Val(EmptyBlob), Val(ImgA), Val(ImgMax), Val(ImgWide), Val(ImgCorrupt)}

Heroes == {Absent, Val(ImgB), Val(ImgTall)}

OptPalettes == {Absent, None} \cup {Val(p) : p \in Palettes}

EvidenceRecords ==
    [title : Titles, full_page_screenshots : FullPageScreenshots, pdf_base64 : Pdfs,
     screenshot_base64 : Screenshots, screenshot_hero : Heroes,
     color_palette : OptPalettes, fonts : {Absent}]

InitGen ==
    /\ jobs_db = {}
    /\ jobs = [j \in JobIds |-> NoJob]
    /\ task = [j \in JobIds |-> "none"]
    /\ scraped_data_dict = [j \in JobIds |-> NoEvidence]
    /\ \E sd \in EvidenceRecords :
        gen = [c \in Callers |-> IF c = Direct THEN [IdleCall EXCEPT !.pc = "call", !.sd = sd]
                                 ELSE IdleCall]
    /\ llm_generator = TRUE
    /\ scraper = IdleScraper
    /\ response = NoResponse
    /\ clock = 0
    /\ tz = 0
    /\ status_log = [j \in JobIds |-> <<>>]
    /\ capture_calls = [j \in JobIds |-> 0]
    /\ generate_calls = [j \in JobIds |-> 0]
    /\ exc = [j \in JobIds |-> None]

\* the call of generate_html_clone, to its first await or to its end
CallGenerate ==
    /\ gen[Direct].pc = "call"
    /\ gen' = [gen EXCEPT ![Direct] = GenerateHtmlClone(@.sd)]
    /\ UNCHANGED <<jobs_db, jobs, task, scraped_data_dict, llm_generator, response, scraper, clock, tz,
                   status_log, capture_calls, generate_calls, exc>>

NextGen ==
    \/ CallGenerate
    \/ MultiResponse(Direct)
    \/ ImageResponse(Direct)
    \/ PdfFullResponse(Direct)
    \/ PdfTerseResponse(Direct)

SpecGen == InitGen /\ [][NextGen]_vars

(***************************************************************************)
(* _extract_html_code on any text: the call stands at line 34 with the     *)
(* text html_code, held as the one reply.                                  *)
(***************************************************************************)
Alphabet == {Ticks, "html", "<!DOCTYPE", "<html", " ", "\n", "x"}

Texts == UNION {[1..n -> Alphabet] : n \in 0..MaxText}

InitExtract ==
    /\ jobs_db = {}
    /\ jobs = [j \in JobIds |-> NoJob]
    /\ task = [j \in JobIds |-> "none"]
    /\ scraped_data_dict = [j \in JobIds |-> NoEvidence]
    /\ \E t \in Texts :
        gen = [c \in Callers |->
                 IF c = Direct
                 THEN [IdleCall EXCEPT !.pc = "extract", !.replies = <<Success(t)>>]
                 ELSE IdleCall]
    /\ llm_generator = TRUE
    /\ scraper = IdleScraper
    /\ response = NoResponse
    /\ clock = 0
    /\ tz = 0
    /\ status_log = [j \in JobIds |-> <<>>]
    /\ capture_calls = [j \in JobIds |-> 0]
    /\ generate_calls = [j \in JobIds |-> 0]
    /\ exc = [j \in JobIds |-> None]

\* return self._extract_html_code(html_code)
ExtractCall ==
    /\ gen[Direct].pc = "extract"
    /\ gen' = [gen EXCEPT ![Direct] = Return(@, @.replies[1].text)]
    /\ UNCHANGED <<jobs_db, jobs, task, scraped_data_dict, llm_generator, response, scraper, clock, tz,
                   status_log, capture_calls, generate_calls, exc>>

\* _extract_html_code applied to a text it returned: the result is held as
\* the next html_code and extracted again
ExtractAgain ==
    /\ gen[Direct].pc = "returned"
    /\ Len(gen[Direct].replies) = 1
    /\ gen' = [gen EXCEPT ![Direct] =
                  Return([@ EXCEPT !.replies = Append(@, Success(gen[Direct].out))],
                         gen[Direct].out)]
    /\ UNCHANGED <<jobs_db, jobs, task, scraped_data_dict, llm_generator, response, scraper, clock, tz,
                   status_log, capture_calls, generate_calls, exc>>

NextExtract == ExtractCall \/ ExtractAgain

SpecExtract == InitExtract /\ [][NextExtract]_vars

(***************************************************************************)
(* _create_fallback_html on any title and palette, called in two calls of  *)
(* generate_html_clone (one outside the pipeline, one of a job's task)      *)
(* that differ in the rest of their evidence and in the requests that      *)
(* failed before.                                                          *)
(***************************************************************************)
FallbackCallers == {Direct, 1}

FallbackEvidence ==
    {[NoEvidence EXCEPT !.title = t, !.color_palette = p, !.fonts = f] :
        t \in Titles, p \in OptPalettes, f \in {Absent, Val(<<"Inter">>)}}

Histories == {<<>>, <<Failure>>}

InitFallback ==
    /\ jobs_db = {}
    /\ jobs = [j \in JobIds |-> NoJob]
    /\ task = [j \in JobIds |-> "none"]
    /\ scraped_data_dict = [j \in JobIds |-> NoEvidence]
    /\ \E sds \in [FallbackCallers -> FallbackEvidence], hs \in [FallbackCallers -> Histories] :
        gen = [c \in Callers |->
                 IF c \in FallbackCallers
                 THEN [IdleCall EXCEPT !.pc = "fallback", !.sd = sds[c], !.replies = hs[c]]
                 ELSE IdleCall]
    /\ llm_generator = TRUE
    /\ scraper = IdleScraper
    /\ response = NoResponse
    /\ clock = 0
    /\ tz = 0
    /\ status_log = [j \in JobIds |-> <<>>]
    /\ capture_calls = [j \in JobIds |-> 0]
    /\ generate_calls = [j \in JobIds |-> 0]
    /\ exc = [j \in JobIds |-> None]

\* html_code = self._create_fallback_html(scraped_data), in the call of c
FallbackCall(c) ==
    /\ gen[c].pc = "fallback"
    /\ LET f == CreateFallbackHtml(gen[c].sd)
       IN  gen' = [gen EXCEPT ![c] =
                     [@ EXCEPT !.pc = IF f.raised THEN "raised" ELSE "html_code",
                               !.out = f.text]]
    /\ UNCHANGED <<jobs_db, jobs, task, scraped_data_dict, llm_generator, response, scraper, clock, tz,
                   status_log, capture_calls, generate_calls, exc>>

NextFallback == \E c \in FallbackCallers : FallbackCall(c)

SpecFallback == InitFallback /\ [][NextFallback]_vars

(***************************************************************************)
(* scrape_website on one page, and generate_html_clone on what it returns. *)
(***************************************************************************)
InitScrape ==
    /\ jobs_db = {}
    /\ jobs = [j \in JobIds |-> NoJob]
    /\ task = [j \in JobIds |-> "none"]
    /\ scraped_data_dict = [j \in JobIds |-> NoEvidence]
    /\ gen = [c \in Callers |-> IdleCall]
    /\ llm_generator = TRUE
    /\ clock = 0
    /\ tz = 0
    /\ status_log = [j \in JobIds |-> <<>>]
    /\ capture_calls = [j \in JobIds |-> 0]
    /\ generate_calls = [j \in JobIds |-> 0]
    /\ exc = [j \in JobIds |-> None]
    /\ scraper = [IdleScraper EXCEPT !.pc = "take"]
    /\ response = NoResponse

\* _take_full_page_screenshots, lines 130-149: the two heights are read and
\* the scroll step computed; a step of zero raises ZeroDivisionError at the
\* estimate, and a page.evaluate may raise
TakeFullPageScreenshots ==
    /\ scraper.pc = "take"
    /\ \E page_height \in PageHeights, viewport_height \in ViewportHeights,
          raises \in BOOLEAN :
        LET scroll_step == viewport_height - Overlap
        IN  scraper' = [scraper EXCEPT
                            !.page_height = page_height,
                            !.viewport_height = viewport_height,
                            !.pc = IF raises \/ scroll_step = 0 THEN "except" ELSE "loop"]
    /\ UNCHANGED <<jobs_db, jobs, task, scraped_data_dict, gen, llm_generator, response, clock, tz,
                   status_log, capture_calls, generate_calls, exc>>

\* (mutant) the break at the cap comes two screenshots late
LoopStepUncapped ==
    /\ scraper.pc = "loop"
    /\ IF scraper.current_position < scraper.page_height
       THEN \E env \in OptimizeEnv :
               LET shot == OptimizeScreenshotForLlm(ViewportShot(scraper.viewport_height), env)
                   count == scraper.screenshot_count + 1
               IN  scraper' = [scraper EXCEPT
                                   !.screenshot_count = count,
                                   !.screenshots = Append(@, shot),
                                   !.positions = Append(@, scraper.current_position),
                                   !.current_position = @ + (scraper.viewport_height - Overlap),
                                   !.pc = IF count >= MaxScreenshots + 2 THEN "taken" ELSE "loop"]
       ELSE scraper' = [scraper EXCEPT !.pc = "taken"]
    /\ UNCHANGED <<jobs_db, jobs, task, scraped_data_dict, gen, llm_generator, response, clock, tz,
                   status_log, capture_calls, generate_calls, exc>>

\* one test of the while condition and, when it holds, one pass of the
\* body, lines 151-173: scroll, capture, append, advance, and the break at
\* the cap
LoopStep ==
    /\ scraper.pc = "loop"
    /\ IF scraper.current_position < scraper.page_height
       THEN \E env \in OptimizeEnv :
               LET shot == OptimizeScreenshotForLlm(ViewportShot(scraper.viewport_height), env)
                   count == scraper.screenshot_count + 1
               IN  scraper' = [scraper EXCEPT
                                   !.screenshot_count = count,
                                   !.screenshots = Append(@, shot),
                                   !.positions = Append(@, scraper.current_position),
                                   !.current_position = @ + (scraper.viewport_height - Overlap),
                                   !.pc = IF count >= MaxScreenshots THEN "taken" ELSE "loop"]
       ELSE scraper' = [scraper EXCEPT !.pc = "taken"]
    /\ UNCHANGED <<jobs_db, jobs, task, scraped_data_dict, gen, llm_generator, response, clock, tz,
                   status_log, capture_calls, generate_calls, exc>>

\* a page.evaluate or page.screenshot in the body raises
LoopRaises ==
    /\ scraper.pc = "loop"
    /\ scraper.current_position < scraper.page_height
    /\ scraper' = [scraper EXCEPT !.pc = "except"]
    /\ UNCHANGED <<jobs_db, jobs, task, scraped_data_dict, gen, llm_generator, response, clock, tz,
                   status_log, capture_calls, generate_calls, exc>>

\* the except clause, lines 180-184: one screenshot of the viewport where
\* the page stands is the whole result; if that raises too, scrape_website
\* fails
ExceptShot ==
    /\ scraper.pc = "except"
    /\ \E raises \in BOOLEAN, env \in OptimizeEnv :
        LET shot == OptimizeScreenshotForLlm(ViewportShot(scraper.viewport_height), env)
            stands == IF scraper.positions = <<>> THEN 0
                      ELSE scraper.positions[Len(scraper.positions)]
        IN  scraper' = IF raises THEN [scraper EXCEPT !.pc = "failed"]
                       ELSE [scraper EXCEPT !.screenshots = <<shot>>,
                                            !.positions = <<stands>>,
                                            !.pc = "taken"]
    /\ UNCHANGED <<jobs_db, jobs, task, scraped_data_dict, gen, llm_generator, response, clock, tz,
                   status_log, capture_calls, generate_calls, exc>>

\* the evidence scrape_website builds, lines 100-113
Scraped(full_page_screenshots, pdf) ==
    [title |-> Val(<<"Acme">>),
     full_page_screenshots |-> Val(full_page_screenshots),
     pdf_base64 |-> Val(pdf),
     screenshot_base64 |-> Val(IF full_page_screenshots # <<>>
                               THEN full_page_screenshots[1] ELSE EmptyBlob),
     screenshot_hero |-> Absent,
     color_palette |-> Val(AcmePalette),
     fonts |-> Val(<<"Inter">>)]

\* (mutant) the summary tests the list before it reads its first element
ScrapeWebsiteReturnsGuarded ==
    /\ scraper.pc = "taken"
    /\ \E pdf \in {EmptyBlob, PdfDoc}, raises \in BOOLEAN :
        IF raises
        THEN /\ scraper' = [scraper EXCEPT !.pc = "failed"]
             /\ UNCHANGED gen
        ELSE /\ scraper' = [scraper EXCEPT !.pc = "scraped"]
             /\ gen' = [gen EXCEPT ![Direct] =
                           [IdleCall EXCEPT !.pc = "call",
                                            !.sd = Scraped(scraper.screenshots, pdf)]]
    /\ UNCHANGED <<jobs_db, jobs, task, scraped_data_dict, llm_generator, response, clock, tz,
                   status_log, capture_calls, generate_calls, exc>>

\* scrape_website after the screenshots, lines 95-126: the pdf (empty text
\* when it failed), the extractions (any of their awaits may raise), the
\* summary, whose full_page_screenshots[0] raises IndexError on an empty
\* list, and the return; the caller then calls generate_html_clone on it
ScrapeWebsiteReturns ==
    /\ scraper.pc = "taken"
    /\ \E pdf \in {EmptyBlob, PdfDoc}, raises \in BOOLEAN :
        IF raises \/ scraper.screenshots = <<>>
        THEN /\ scraper' = [scraper EXCEPT !.pc = "failed"]
             /\ UNCHANGED gen
        ELSE /\ scraper' = [scraper EXCEPT !.pc = "scraped"]
             /\ gen' = [gen EXCEPT ![Direct] =
                           [IdleCall EXCEPT !.pc = "call",
                                            !.sd = Scraped(scraper.screenshots, pdf)]]
    /\ UNCHANGED <<jobs_db, jobs, task, scraped_data_dict, llm_generator, response, clock, tz,
                   status_log, capture_calls, generate_calls, exc>>

NextScrape ==
    \/ TakeFullPageScreenshots
    \/ LoopStep
    \/ LoopRaises
    \/ ExceptShot
    \/ ScrapeWebsiteReturns
    \/ CallGenerate
    \/ MultiResponse(Direct)
    \/ ImageResponse(Direct)

SpecScrape == InitScrape /\ [][NextScrape]_vars

(***************************************************************************)
(* The queries of clients while a pipeline runs.  The task of the first    *)
(* job runs; the jobs of further requests are created, queried and deleted *)
(* while their tasks wait.                                                 *)
(***************************************************************************)
\* GET /status/{job_id}: get_job_status
GetJobStatus(j) ==
    /\ response' = IF j \notin jobs_db THEN HttpError("status", j, 404)
                   ELSE [NoResponse EXCEPT !.op = "status", !.id = j, !.code = 200,
                                           !.status = jobs[j].status]
    /\ UNCHANGED <<jobs_db, jobs, task, scraped_data_dict, gen, llm_generator, clock, tz,
                   status_log, capture_calls, generate_calls, exc, scraper>>

\* (mutant) the result is looked up without the test of the registry
GetResultDeleted(j) ==
    /\ response' = IF jobs[j].status # "completed" THEN HttpError("result", j, 400)
                   ELSE IF ~TruthyText(jobs[j].generated_html)
                   THEN HttpError("result", j, 404)
                   ELSE [NoResponse EXCEPT !.op = "result", !.id = j, !.code = 200,
                                           !.html = jobs[j].generated_html]
    /\ UNCHANGED <<jobs_db, jobs, task, scraped_data_dict, gen, llm_generator, clock, tz,
                   status_log, capture_calls, generate_calls, exc, scraper>>

\* GET /result/{job_id}: get_result
GetResult(j) ==
    /\ response' = IF j \notin jobs_db THEN HttpError("result", j, 404)
                   ELSE IF jobs[j].status # "completed" THEN HttpError("result", j, 400)
                   ELSE IF ~TruthyText(jobs[j].generated_html)
                   THEN HttpError("result", j, 404)
                   ELSE [NoResponse EXCEPT !.op = "result", !.id = j, !.code = 200,
                                           !.html = jobs[j].generated_html]
    /\ UNCHANGED <<jobs_db, jobs, task, scraped_data_dict, gen, llm_generator, clock, tz,
                   status_log, capture_calls, generate_calls, exc, scraper>>

\* GET /result/{job_id}/preview: preview_result
PreviewResult(j) ==
    /\ response' = IF j \notin jobs_db THEN HttpError("preview", j, 404)
                   ELSE IF jobs[j].status # "completed" \/ ~TruthyText(jobs[j].generated_html)
                   THEN [NoResponse EXCEPT !.op = "preview", !.id = j, !.code = 202,
                                           !.status = jobs[j].status,
                                           !.html = Val(PreviewNotReady)]
                   ELSE [NoResponse EXCEPT !.op = "preview", !.id = j, !.code = 200,
                                           !.html = jobs[j].generated_html]
    /\ UNCHANGED <<jobs_db, jobs, task, scraped_data_dict, gen, llm_generator, clock, tz,
                   status_log, capture_calls, generate_calls, exc, scraper>>

\* list.sort(key=created_at, reverse=True) of the registry's jobs, which the
\* dict holds in the order they were stored: newest first, and jobs created
\* at the same time in the order they were stored
RECURSIVE NewestFirst(_)
NewestFirst(ids) ==
    IF ids = {} THEN <<>>
    ELSE LET first == CHOOSE j \in ids :
                          \A k \in ids :
                              \/ jobs[j].created_at > jobs[k].created_at
                              \/ jobs[j].created_at = jobs[k].created_at /\ j <= k
         IN  <<first>> \o NewestFirst(ids \ {first})

\* GET /jobs: list_jobs
ListJobs ==
    /\ response' = [NoResponse EXCEPT !.op = "list", !.code = 200,
                                      !.ids = NewestFirst(jobs_db)]
    /\ UNCHANGED <<jobs_db, jobs, task, scraped_data_dict, gen, llm_generator, clock, tz,
                   status_log, capture_calls, generate_calls, exc, scraper>>

\* the jobs whose tasks the event loop runs here: the first one
Running == {j \in JobIds : \A k \in JobIds : j <= k}

NextQuery ==
    \/ StartWebsiteCloning
    \/ ListJobs
    \/ \E j \in JobIds :
        \/ DeleteJob(j)
        \/ GetJobStatus(j)
        \/ GetResult(j)
        \/ PreviewResult(j)
    \/ \E j \in Running :
        \/ ProcessStart(j)
        \/ CaptureRaises(j)
        \/ CaptureReturns(j)
        \/ SleepReturns(j)
        \/ MultiResponse(j)
        \/ ImageResponse(j)

SpecQuery == Init /\ [][NextQuery]_vars

(***************************************************************************)
(* Properties.                                                             *)
(***************************************************************************)
Lifecycle == <<"pending", "scraping", "processing", "generating", "completed">>

IsPrefix(s, t) == Len(s) <= Len(t) /\ \A i \in 1..Len(s) : s[i] = t[i]

Last(s) == s[Len(s)]

Front(s) == SubSeq(s, 1, Len(s) - 1)

Created(j) == task[j] # "none"

\* C1: the status values a job takes, in order, are a prefix of PENDING,
\* SCRAPING, PROCESSING, GENERATING, COMPLETED, or a prefix short of
\* COMPLETED followed by FAILED; the job's status is the last of them.
C1_StatusSequence ==
    \A j \in JobIds :
        Created(j) =>
            /\ status_log[j] # <<>>
            /\ jobs[j].status = Last(status_log[j])
            /\ \/ IsPrefix(status_log[j], Lifecycle)
               \/ /\ Last(status_log[j]) = "failed"
                  /\ Front(status_log[j]) # <<>>
                  /\ IsPrefix(Front(status_log[j]), Front(Lifecycle))

\* one job ran the whole lifecycle while another failed in its capture
C1_Witness ==
    \E j, k \in JobIds :
        /\ status_log[j] = Lifecycle
        /\ status_log[k] = <<"pending", "scraping", "failed">>

\* C2: once a job is COMPLETED or FAILED no step changes its status, its
\* generated html or its error message.
C2_Terminal ==
    [][\A j \in JobIds :
          jobs[j].status \in {"completed", "failed"} =>
              /\ jobs'[j].status = jobs[j].status
              /\ jobs'[j].generated_html = jobs[j].generated_html
              /\ jobs'[j].error_message = jobs[j].error_message]_vars

\* two jobs are terminal, one of each kind, and one is deleted: whichever
\* ended first was terminal while the other took its last step
C2_Witness ==
    \E j, k \in JobIds :
        /\ jobs[j].status = "completed"
        /\ jobs[k].status = "failed"
        /\ task[j] = "done"
        /\ task[k] = "done"
        /\ j \notin jobs_db

\* C3: a COMPLETED job carries a non-empty generated html.
C3_CompletedHasHtml ==
    \A j \in JobIds :
        jobs[j].status = "completed" =>
            /\ jobs[j].generated_html.tag = "val"
            /\ Len(jobs[j].generated_html.v) > 0

\* a job completed by a generate call whose model request returned the empty
\* text: its html is the doctype line alone
C3_Witness ==
    \E j \in JobIds :
        /\ jobs[j].status = "completed"
        /\ generate_calls[j] = 1
        /\ jobs[j].generated_html = Val(DoctypeLine)

\* C4: a FAILED job carries a non-empty error message, whatever exception
\* was caught.
C4_FailedHasMessage ==
    \A j \in JobIds :
        jobs[j].status = "failed" =>
            /\ jobs[j].error_message.tag = "val"
            /\ Len(jobs[j].error_message.v) > 0

C6_CaptureFailure ==
    \A j \in JobIds :
        /\ capture_calls[j] <= 1
        /\ exc[j] # None =>
              /\ status_log[j] = <<"pending", "scraping", "failed">>
              /\ jobs[j].error_message = exc[j]
              /\ generate_calls[j] = 0
              /\ jobs[j].generated_html = None

\* scrape_website raised on a navigation timeout
C6_Witness ==
    \E j \in JobIds :
        /\ exc[j] = Val(WrapScrapeError(<<"Timeout 30000ms exceeded.">>))
        /\ jobs[j].status = "failed"

\* C7: updated_at never decreases, from the construction of the job on, and
\* every change of status stamps it.
C7_UpdatedAtMonotone ==
    [][\A j \in JobIds :
          /\ Created(j) => jobs'[j].updated_at >= jobs[j].updated_at
          /\ jobs'[j].status # jobs[j].status =>
                 jobs'[j].updated_at \in {UtcNow', Now'}]_vars

\* C8: generate_html_clone never raises.
C8_GenerateNeverRaises == gen[Direct].pc # "raised"

\* the Selector has run in the call
Selected == gen[Direct].pc \notin {"idle", "call"}

\* an optional list that is there and not empty
PresentList(o) == o # Absent /\ o # None /\ Len(o.v) > 0

\* an optional blob that is there and not the empty text
PresentBlob(o) == o # Absent /\ o # None /\ o.v.data # ""

C10_DocumentThenNone ==
    LET g == gen[Direct]
        noSequence == ~PresentList(g.sd.full_page_screenshots)
        hasDocument == PresentBlob(g.sd.pdf_base64)
        Usable(o) == PresentBlob(o) /\ o.v.decodable /\ o.v.w <= 3000 /\ o.v.h <= 3000
    IN  Selected =>
            /\ (noSequence /\ hasDocument) =>
                   g.visual = [type |-> "pdf", images |-> <<>>, pdf |-> g.sd.pdf_base64.v]
            /\ g.visual.type = "none" <=>
                   /\ noSequence
                   /\ ~hasDocument
                   /\ ~Usable(g.sd.screenshot_base64)
                   /\ ~Usable(g.sd.screenshot_hero)

\* the document was selected although a valid single screenshot exists
C10_Witness ==
    LET g == gen[Direct]
    IN  /\ Selected
        /\ g.visual.type = "pdf"
        /\ g.sd.full_page_screenshots = Val(<<>>)
        /\ g.sd.screenshot_base64 = Val(ImgA)

\* an optional image that is there, decodes, and is at most 3000 by 3000
PassesSize(o) == PresentBlob(o) /\ o.v.decodable /\ o.v.w <= 3000 /\ o.v.h <= 3000

\* the evidence of call g has neither a screenshot sequence nor a document
SingleOnly(g) ==
    ~PresentList(g.sd.full_page_screenshots) /\ ~PresentBlob(g.sd.pdf_base64)

\* the Selector's result when it selects the single screenshot o
OneImage(o) == [type |-> "screenshots", images |-> <<o.v>>, pdf |-> EmptyBlob]

\* C11: when the Selector comes to the single screenshots and the hero and
\* the generic screenshot both pass the size validation, the hero is the
\* one selected, as a one-element sequence.
C11_HeroBeforeGeneric ==
    LET g == gen[Direct]
    IN  (/\ Selected
         /\ SingleOnly(g)
         /\ PassesSize(g.sd.screenshot_hero)
         /\ PassesSize(g.sd.screenshot_base64)) =>
            g.visual = OneImage(g.sd.screenshot_hero)

\* C12: among the single screenshots the Selector returns one that passes
\* the size validation whenever there is one, passing over those that do
\* not, and returns none of them otherwise; a single-image request made for
\* the selection carries the selected image.
C12_InvalidSkipped ==
    LET g == gen[Direct]
        cands == {g.sd.screenshot_base64, g.sd.screenshot_hero}
    IN  (Selected /\ SingleOnly(g)) =>
            /\ g.visual.type = "screenshots" =>
                   \E o \in cands : PassesSize(o) /\ g.visual = OneImage(o)
            /\ g.visual.type # "screenshots" =>
                   /\ g.visual = NoVisual
                   /\ \A o \in cands : ~PassesSize(o)
            /\ \A i \in 1..Len(g.requests) :
                   g.requests[i] = Request("image", g.visual.images, EmptyBlob)

\* the generic screenshot is too wide and was passed over for the hero
C12_Witness ==
    LET g == gen[Direct]
    IN  /\ g.pc = "image"
        /\ g.sd.screenshot_base64 = Val(ImgWide)
        /\ g.sd.screenshot_hero = Val(ImgB)
        /\ g.visual = OneImage(Val(ImgB))

\* C13: a screenshot that is the only visual input is selected exactly when
\* it decodes to at most 3000 by 3000; 3000 by 3000 is selected, 3001 by
\* 3000 and 3000 by 3001 are not, and one that does not decode is not
\* selected either: the Selector then returns None.
C13_SizeValidation ==
    LET g == gen[Direct]
        Rule(o) == o.v.decodable /\ o.v.w <= 3000 /\ o.v.h <= 3000
        Alone(o, other) == SingleOnly(g) /\ PresentBlob(o) /\ ~PresentBlob(other)
        Decided(o) == IF Rule(o) THEN g.visual = OneImage(o) ELSE g.visual = NoVisual
    IN  Selected =>
            /\ Alone(g.sd.screenshot_base64, g.sd.screenshot_hero) =>
                   Decided(g.sd.screenshot_base64)
            /\ Alone(g.sd.screenshot_hero, g.sd.screenshot_base64) =>
                   Decided(g.sd.screenshot_hero)

\* the only visual input is 3000 by 3000 and was selected
C13_Witness ==
    LET g == gen[Direct]
    IN  /\ Selected
        /\ SingleOnly(g)
        /\ g.sd.screenshot_base64 = Val(ImgMax)
        /\ ~PresentBlob(g.sd.screenshot_hero)
        /\ g.visual = OneImage(Val(ImgMax))

\* C14: for a screenshot sequence of more than one image the first request
\* is one multi-image request carrying all images in capture order; at most
\* one more request follows, only after the multi-image request failed, and
\* it is a single-image request carrying the first image alone.
C14_OneMultiRequest ==
    LET g == gen[Direct]
        shots == g.sd.full_page_screenshots
    IN  (Selected /\ PresentList(shots) /\ Len(shots.v) > 1) =>
            /\ Len(g.requests) \in {1, 2}
            /\ g.requests[1] = Request("multi", shots.v, EmptyBlob)
            /\ Len(g.requests) = 2 =>
                   /\ g.replies # <<>>
                   /\ ~g.replies[1].ok
                   /\ g.requests[2] = Request("image", <<shots.v[1]>>, EmptyBlob)
            /\ (g.replies # <<>> /\ ~g.replies[1].ok) => Len(g.requests) = 2

\* the multi-image request for two screenshots failed and the first one was
\* sent alone
C14_Witness ==
    LET g == gen[Direct]
    IN  /\ g.pc = "image"
        /\ g.replies = <<Failure>>
        /\ g.requests = <<Request("multi", <<ImgA, ImgB>>, EmptyBlob),
                          Request("image", <<ImgA>>, EmptyBlob)>>

\* C15: when the only visual input is one valid screenshot, generate issues
\* one single-image request with it and no other request, and when that
\* request fails generate returns the Local Fallback Generator's output for
\* the evidence.
C15_SingleImageThenFallback ==
    LET g == gen[Direct]
        one == CHOOSE o \in {g.sd.screenshot_base64, g.sd.screenshot_hero} : PassesSize(o)
    IN  (/\ Selected
         /\ SingleOnly(g)
         /\ PassesSize(g.sd.screenshot_base64) # PassesSize(g.sd.screenshot_hero)) =>
            /\ g.requests = <<Request("image", <<one.v>>, EmptyBlob)>>
            /\ (g.replies # <<>> /\ ~g.replies[1].ok) =>
                   /\ g.pc = "returned"
                   /\ g.out = CreateFallbackHtml(g.sd).text

\* C16: a response with empty content is not returned as the result: a call
\* that returned after such a response returned the Local Fallback
\* Generator's output.
C16_EmptyIsFailure ==
    LET g == gen[Direct]
    IN  (/\ g.pc = "returned"
         /\ g.replies # <<>>
         /\ Last(g.replies) = Success(<<>>)) =>
            g.out = CreateFallbackHtml(g.sd).text

\* a model request failed: it raised, or its response had empty content
RequestFailed(o) == ~o.ok \/ o.text = <<>>

\* C17: on the Document path, when the first request fails the second
\* request is the one with the terse instruction, and the terse instruction
\* is sent at most once and only as the request after a failed first one.
C17_TerseRetry ==
    LET g == gen[Direct]
    IN  (Selected /\ g.visual.type = "pdf") =>
            /\ g.requests[1] = Request("pdf_full", <<>>, g.visual.pdf)
            /\ (g.replies # <<>> /\ RequestFailed(g.replies[1])) =>
                   /\ Len(g.requests) >= 2
                   /\ g.requests[2] = Request("pdf_terse", <<>>, g.visual.pdf)
                   /\ Len(g.converted) > 0 => Len(g.replies) >= 2
            /\ \A i \in 1..Len(g.requests) :
                   g.requests[i].kind = "pdf_terse" => i = 2 /\ RequestFailed(g.replies[1])

\* C18: on the Document path, after both document requests failed the
\* conversion runs once; its image, when there is one, goes into a
\* single-image request; else the evidence's raw screenshot, when it is
\* there and passes the size validation, goes into a single-image request;
\* else the Local Fallback Generator's output is returned.  No further
\* request follows.
C18_AfterDocumentFails ==
    LET g == gen[Direct]
        raw == g.sd.screenshot_base64
    IN  (/\ Selected
         /\ g.visual.type = "pdf"
         /\ Len(g.replies) >= 2
         /\ g.requests[2].kind = "pdf_terse"
         /\ RequestFailed(g.replies[1])
         /\ RequestFailed(g.replies[2])) =>
            /\ Len(g.converted) = 1
            /\ Len(g.requests) <= 3
            /\ IF g.converted[1] # None
               THEN /\ Len(g.requests) = 3
                    /\ g.requests[3] = Request("image", <<g.converted[1].v>>, EmptyBlob)
               ELSE IF PassesSize(raw)
               THEN /\ Len(g.requests) = 3
                    /\ g.requests[3] = Request("image", <<raw.v>>, EmptyBlob)
               ELSE /\ Len(g.requests) = 2
                    /\ g.pc = "returned"
                    /\ g.out = CreateFallbackHtml(g.sd).text

\* C19: when the Selector returns None, generate issues no model request and
\* returns the Local Fallback Generator's output for the evidence.
C19_NoneGoesToFallback ==
    LET g == gen[Direct]
    IN  (Selected /\ g.visual.type = "none") =>
            /\ g.requests = <<>>
            /\ g.pc = "returned"
            /\ g.out = CreateFallbackHtml(g.sd).text

\* C20: for every text, _extract_html_code returns a non-empty text that
\* starts with the doctype declaration or the root tag.
C20_ExtractTotal ==
    LET g == gen[Direct]
    IN  g.pc # "extract" =>
            /\ g.pc = "returned"
            /\ g.out # <<>>
            /\ Head(g.out) \in {"<!DOCTYPE", "<html"}

\* a text with an html fence that is never closed
C20_Witness ==
    LET g == gen[Direct]
    IN  /\ g.pc = "returned"
        /\ g.replies = <<Success(<<"x", Ticks, "html", "x">>)>>
        /\ g.out = DoctypeLine \o <<"x">>

\* C21: for a text x that begins with the doctype or the root tag and holds
\* no code fence, extracting the extraction of x gives the extraction of x.
C21_ExtractIdempotent ==
    LET g == gen[Direct]
        x == g.replies[1].text
    IN  (/\ g.pc = "returned"
         /\ Len(g.replies) = 2
         /\ x # <<>>
         /\ x[1] \in {"<!DOCTYPE", "<html"}
         /\ \A i \in 1..Len(x) : x[i] # Ticks) =>
            g.out = g.replies[2].text

\* a text with the root tag first and blanks last, extracted twice
C21_Witness ==
    LET g == gen[Direct]
    IN  /\ g.pc = "returned"
        /\ g.replies = <<Success(<<"<html", "x", " ", "\n">>), Success(<<"<html", "x">>)>>
        /\ g.out = <<"<html", "x">>

\* the least element of a non-empty set of numbers
Least(S) == CHOOSE i \in S : \A k \in S : i <= k

\* the part of x the fence rule selects: after the first html-tagged fence,
\* else after the first fence, up to the next fence or the end; else all of x
Selection(x) ==
    LET tagged == {i \in 1..Len(x) - 1 : x[i] = Ticks /\ x[i + 1] = "html"}
        fences == {i \in 1..Len(x) : x[i] = Ticks}
        Upto(start) ==
            LET closing == {i \in fences : i >= start}
            IN  SubSeq(x, start, IF closing = {} THEN Len(x) ELSE Least(closing) - 1)
    IN  IF tagged # {} THEN Upto(Least(tagged) + 2)
        ELSE IF fences # {} THEN Upto(Least(fences) + 1)
        ELSE x

\* y without the blanks and newlines at its two ends
Trimmed(y) ==
    LET solid == {i \in 1..Len(y) : y[i] \notin {" ", "\n"}}
    IN  IF solid = {} THEN <<>>
        ELSE SubSeq(y, Least(solid), CHOOSE i \in solid : \A k \in solid : i >= k)

\* C22: what _extract_html_code returns for x is the trimmed selection of
\* the fence rule, with the doctype line before it exactly when the trimmed
\* selection does not start with the doctype or the root tag.
C22_FenceRule ==
    LET g == gen[Direct]
        x == Last(g.replies).text
        t == Trimmed(Selection(x))
    IN  g.pc = "returned" =>
            g.out = IF t # <<>> /\ t[1] \in {"<!DOCTYPE", "<html"}
                    THEN t
                    ELSE <<"<!DOCTYPE", " ", "html", ">", "\n">> \o t

\* an untagged fence comes first and the html-tagged fence after it is the
\* one taken
C22_Witness ==
    LET g == gen[Direct]
    IN  /\ g.pc = "returned"
        /\ g.replies = <<Success(<<Ticks, "x", Ticks, "html", "<html">>)>>
        /\ g.out = <<"<html">>

\* the fallback document with the given title, text colour, background
\* colour and accent colour
FallbackDocument(title, text, background, accent) ==
    <<"<!DOCTYPE", " ", "html", ">", "\n", "<html", " lang><head><title>">>
    \o title
    \o <<"</title><style>body{background:", background, ";color:", text,
         ";}header{background:", text, ";color:", background,
         ";}.notice{border-left:4px solid ", accent,
         ";}</style></head><body><header><h1>">>
    \o title
    \o <<"</h1></header><main>Fallback mode</main></body></", "html", ">">>

\* the title the document shows for the title o of the evidence
ShownTitle(o) ==
    IF o = Absent THEN <<"Cloned Website">> ELSE IF o = None THEN <<"None">> ELSE o.v

\* the call of c has been through _create_fallback_html
FellBack(c) == gen[c].pc \in {"html_code", "raised"}

\* C23: two invocations of the Local Fallback Generator on evidence with the
\* same title and the same palette end the same way with the same output,
\* whatever else the evidence holds and whatever requests failed before; and
\* an empty palette gives the three default colours.
C23_FallbackDeterministic ==
    /\ \A c, d \in FallbackCallers :
           (/\ FellBack(c)
            /\ FellBack(d)
            /\ gen[c].sd.title = gen[d].sd.title
            /\ gen[c].sd.color_palette = gen[d].sd.color_palette) =>
               /\ gen[c].pc = gen[d].pc
               /\ gen[c].out = gen[d].out
    /\ \A c \in FallbackCallers :
           (FellBack(c) /\ gen[c].sd.color_palette = Val(<<>>)) =>
               /\ gen[c].pc = "html_code"
               /\ gen[c].out = FallbackDocument(ShownTitle(gen[c].sd.title),
                                                "#333333", "#ffffff", "#007bff")

\* two invocations with the same title and an empty palette, one with fonts
\* in the evidence and after a failed request, the other with neither
C23_Witness ==
    /\ FellBack(Direct)
    /\ FellBack(1)
    /\ gen[Direct].sd.title = Val(<<"Acme">>)
    /\ gen[1].sd.title = Val(<<"Acme">>)
    /\ gen[Direct].sd.color_palette = Val(<<>>)
    /\ gen[1].sd.color_palette = Val(<<>>)
    /\ gen[Direct].sd.fonts = Absent
    /\ gen[1].sd.fonts = Val(<<"Inter">>)
    /\ gen[Direct].replies = <<>>
    /\ gen[1].replies = <<Failure>>

\* C24: palette slot 0 is the text colour, slot 1 the background colour,
\* slot 2 the accent colour; a slot the palette does not have gets its own
\* default, the slots it has keep their value, and an entry after the third
\* does not occur in the document.
C24_PaletteSlots ==
    \A c \in FallbackCallers :
        (FellBack(c) /\ PresentList(gen[c].sd.color_palette)) =>
            LET p == gen[c].sd.color_palette.v
                Slot(i, default) == IF Len(p) >= i THEN p[i] ELSE default
            IN  /\ gen[c].pc = "html_code"
                /\ gen[c].out = FallbackDocument(ShownTitle(gen[c].sd.title),
                                                 Slot(1, "#333333"),
                                                 Slot(2, "#ffffff"),
                                                 Slot(3, "#007bff"))
                /\ \A i \in 4..Len(p) : \A k \in 1..Len(gen[c].out) : gen[c].out[k] # p[i]

\* one invocation on a palette of two colours, one on a palette of four
C24_Witness ==
    /\ gen[Direct].pc = "html_code"
    /\ gen[1].pc = "html_code"
    /\ gen[Direct].sd.color_palette = Val(<<"#111111", "#eeeeee">>)
    /\ gen[1].sd.color_palette = Val(<<"#111111", "#eeeeee", "#ff0000", "#00ff00">>)

\* C25: the Local Fallback Generator returns a document for every evidence
\* record, and the document shows the placeholder title when the evidence
\* has no title.
C25_FallbackTotal ==
    \A c \in FallbackCallers :
        FellBack(c) =>
            /\ gen[c].pc = "html_code"
            /\ gen[c].out # <<>>
            /\ gen[c].sd.title = Absent =>
                   SubSeq(gen[c].out, 8, 8) = <<"Cloned Website">>

\* C26: with no model credential a job makes no generate call, and the html
\* of the completed job is the Local Fallback Generator's output for the
\* job's evidence.
C26_NoCredentialFallback ==
    \A j \in JobIds :
        (~llm_generator /\ jobs[j].status = "completed") =>
            /\ generate_calls[j] = 0
            /\ jobs[j].generated_html =
                   Val(CreateFallbackHtml(jobs[j].scraped_data.v).text)

\* the stages of the text-only strategy, in order
Stages == <<"analysis", "structure_plan", "html_generation", "refinement">>

\* C27: a call on evidence with no visual input but with a palette runs the
\* text-only strategy: its requests are the stages in their order, starting
\* with the analysis, and the call does not end before the html generation
\* stage has been requested.
C27_TextOnlyStages ==
    LET g == gen[Direct]
    IN  (/\ Selected
         /\ g.visual.type = "none"
         /\ PresentList(g.sd.color_palette)
         /\ g.pc \in {"returned", "raised"}) =>
            /\ Len(g.requests) \in 3..4
            /\ \A i \in 1..Len(g.requests) : g.requests[i].kind = Stages[i]

\* the step is one of job j's task, or the request that creates job j
Stepped(j) == task'[j] # task[j] \/ gen'[j] # gen[j]

\* C28: a job's record is written only by a step of its own task (or by the
\* request that creates it), and such a step leaves the record, the evidence,
\* the generate call and the task of every other job as they were; so a step
\* in which one job fails changes no other job.
C28_JobIsolation ==
    [][\A j \in JobIds :
         /\ jobs'[j] # jobs[j] => task'[j] # task[j]
         /\ Stepped(j) =>
                \A k \in JobIds \ {j} :
                    /\ jobs'[k] = jobs[k]
                    /\ scraped_data_dict'[k] = scraped_data_dict[k]
                    /\ gen'[k] = gen[k]
                    /\ task'[k] = task[k]
                    /\ status_log'[k] = status_log[k]]_vars

C28_Witness ==
    \E j, k \in JobIds :
        /\ jobs[j].status = "failed"
        /\ jobs[k].status = "completed"
        /\ jobs[k].generated_html # None

\* C29: a step that puts an id into the registry puts in exactly one, an id
\* no job ever had, with a job in status pending whose task is queued and has
\* not run; a task is started only by such a step and only once per id; and
\* a step that takes an id out of the registry is no step of a pipeline: it
\* leaves every job record and every task as it was.
C29_OneJobPerRequest ==
    [][/\ \A j \in JobIds :
            (j \notin jobs_db /\ j \in jobs_db') =>
                /\ task[j] = "none"
                /\ task'[j] = "queued"
                /\ jobs'[j].status = "pending"
                /\ capture_calls'[j] = 0
                /\ jobs_db' = jobs_db \cup {j}
                /\ \A k \in JobIds \ {j} : task'[k] = task[k] /\ jobs'[k] = jobs[k]
       /\ \A j \in JobIds :
            (task'[j] = "queued" /\ task[j] # "queued") =>
                (task[j] = "none" /\ j \notin jobs_db /\ j \in jobs_db')
       /\ \A j \in JobIds :
            (j \in jobs_db /\ j \notin jobs_db') =>
                /\ jobs' = jobs
                /\ task' = task
                /\ gen' = gen
                /\ status_log' = status_log]_vars

C29_Witness ==
    /\ 1 \notin jobs_db
    /\ task[1] = "done"
    /\ 2 \in jobs_db
    /\ jobs[2].status = "pending"
    /\ task[2] = "queued"

\* the statuses job j has been given so far
Given(j) == {status_log[j][i] : i \in 1..Len(status_log[j])}

\* C30: a job whose capture has been invoked was given scraping first, and
\* while the capture is pending it is in scraping with no evidence; a job
\* that was given processing has its evidence stored; a job whose generate
\* call has been made was given generating first, and while the call is
\* pending it is in generating; a completed job has its html stored.
C30_StatusOrder ==
    \A j \in JobIds :
        /\ capture_calls[j] >= 1 => "scraping" \in Given(j)
        /\ task[j] = "capture" =>
               jobs[j].status = "scraping" /\ jobs[j].scraped_data = None
        /\ "processing" \in Given(j) => jobs[j].scraped_data # None
        /\ jobs[j].status \in {"processing", "generating", "completed"} =>
               jobs[j].scraped_data # None
        /\ generate_calls[j] >= 1 => "generating" \in Given(j)
        /\ task[j] = "generate" => jobs[j].status = "generating"
        /\ jobs[j].status = "completed" =>
               jobs[j].generated_html # None /\ "generating" \in Given(j)

C30_Witness ==
    \E j, k \in JobIds :
        /\ jobs[j].status = "processing"
        /\ task[j] = "sleep"
        /\ jobs[j].scraped_data # None
        /\ jobs[k].status = "completed"
        /\ jobs[k].generated_html # None

\* the background task of job j has been started by the event loop
TaskStarted(j) == task[j] \notin {"none", "queued"}

\* C31: under fair scheduling, with every capture call and every model
\* request ending, a job whose background task has been started is
\* eventually completed or failed.
C31_EventuallyTerminal ==
    \A j \in JobIds :
        TaskStarted(j) ~> (jobs[j].status \in {"completed", "failed"})

\* the techniques of the requests of a call, in the order they were issued
Kinds(g) == [i \in 1..Len(g.requests) |-> g.requests[i].kind]

\* C32: no technique is requested twice in one call; a sequence of two or
\* more screenshots gets at most a multi-image and then a single-image
\* request, a sequence of one at most one single-image request, a document
\* at most the full-instruction, the terse and one single-image request in
\* that order, and no visual input gets no request.
C32_BoundedRequests ==
    LET g == gen[Direct]
        k == Kinds(g)
    IN  Selected =>
            /\ \A i, j \in 1..Len(k) : i < j => k[i] # k[j]
            /\ (g.visual.type = "screenshots" /\ Len(g.visual.images) > 1) =>
                   IsPrefix(k, <<"multi", "image">>)
            /\ (g.visual.type = "screenshots" /\ Len(g.visual.images) = 1) =>
                   IsPrefix(k, <<"image">>)
            /\ g.visual.type = "pdf" =>
                   \/ IsPrefix(k, <<"pdf_full", "pdf_terse", "image">>)
                   \/ k = <<"pdf_full", "image">>
            /\ g.visual.type = "none" => k = <<>>

C32_Witness ==
    LET g == gen[Direct]
    IN  /\ g.pc = "returned"
        /\ g.visual.type = "pdf"
        /\ Kinds(g) = <<"pdf_full", "pdf_terse", "image">>
        /\ \A i \in 1..3 : ~g.replies[i].ok

\* C33: while a generate call runs, through the Selector, every request,
\* the extractor and the fallback generator, the evidence it was given stays
\* as it was; the record a capture returned stays as it was while its task
\* lives, and is the one the task's generate call works on; and the evidence
\* of a job is assigned when its capture returns and never again.
C33_EvidenceFrozen ==
    [][/\ \A c \in Callers :
            (gen[c].pc # "idle" /\ gen'[c].pc # "idle") => gen'[c].sd = gen[c].sd
       /\ \A j \in JobIds :
            /\ (task[j] \in {"sleep", "generate"} /\ task'[j] \in {"sleep", "generate"}) =>
                   scraped_data_dict'[j] = scraped_data_dict[j]
            /\ task'[j] = "generate" => gen'[j].sd = scraped_data_dict'[j]
            /\ jobs[j].scraped_data # None =>
                   jobs'[j].scraped_data = jobs[j].scraped_data
            /\ jobs'[j].scraped_data # jobs[j].scraped_data =>
                   (task[j] = "capture" \/ task[j] = "none")]_vars

C33_Witness ==
    \E j \in JobIds :
        /\ task[j] = "generate"
        /\ gen[j].pc = "image"
        /\ Len(gen[j].replies) = 1
        /\ gen[j].sd = scraped_data_dict[j]
        /\ jobs[j].scraped_data = Val(ScrapedData(scraped_data_dict[j]))

\* C34: the list of screenshots never holds more than 10; every pass of the
\* loop that stays in the loop has raised the count by one and left it below
\* 10, whatever the two heights are, so the loop ends after at most 10
\* passes.
C34_LoopTerminates ==
    [][/\ Len(scraper'.screenshots) <= MaxScreenshots
       /\ (scraper.pc = "loop" /\ scraper'.pc = "loop") =>
              /\ scraper'.screenshot_count = scraper.screenshot_count + 1
              /\ scraper'.screenshot_count < MaxScreenshots
              /\ Len(scraper'.screenshots) = scraper'.screenshot_count]_vars

C34_Witness ==
    /\ scraper.viewport_height < Overlap
    /\ scraper.pc = "taken"
    /\ scraper.current_position < 0
    /\ Len(scraper.screenshots) = MaxScreenshots

C38_DeleteSafe ==
    [][\A j \in JobIds :
         /\ task'[j] # "crashed"
         /\ (Created(j) /\ j \notin jobs_db) => j \notin jobs_db']_vars

\* C39: no job has both a generated html and an error message; a job has an
\* error message exactly when it is failed; and a job that has a generated
\* html is completed (the html and the status are written with no await
\* between them).
C39_HtmlXorError ==
    \A j \in JobIds :
        /\ ~(jobs[j].generated_html # None /\ jobs[j].error_message # None)
        /\ (jobs[j].error_message # None) <=> (jobs[j].status = "failed")
        /\ jobs[j].generated_html # None => jobs[j].status = "completed"

C39_Witness ==
    \E j, k \in JobIds :
        /\ jobs[j].status = "failed"
        /\ jobs[j].error_message # None
        /\ jobs[j].generated_html = None
        /\ jobs[k].status = "completed"
        /\ jobs[k].generated_html # None
        /\ jobs[k].error_message = None

\* C40: a step in which a query is answered changes neither the registry
\* nor any job nor any task; and the answer of the result query holds a html
\* only if the id is in the registry and its job is completed, and then it
\* is that job's html: for every other status and for an id not in the
\* registry the answer is an error with no html.
C40_QueriesReadOnly ==
    [][response' # response =>
          /\ UNCHANGED <<jobs_db, jobs, task, scraped_data_dict, gen, status_log,
                         capture_calls, generate_calls, exc>>
          /\ response'.op = "result" =>
                 LET j == response'.id
                     completed == j \in jobs_db /\ jobs[j].status = "completed"
                 IN  /\ response'.html # None =>
                            /\ completed
                            /\ response'.code = 200
                            /\ response'.html = jobs[j].generated_html
                     /\ ~completed =>
                            /\ response'.code \in {400, 404}
                            /\ response'.html = None]_vars

C40_Witness ==
    /\ response.op = "result"
    /\ response.code = 200
    /\ response.html # None
    /\ response.id \notin jobs_db

====
